---- MODULE Spec2Model ----
(***************************************************************************)
(* Model of the configuration resolution of galexie                        *)
(* (src/internal/config.go): DataStoreConfig.Validate, Config.processToml, *)
(* Config.ValidateAndSetLedgerRange with Config.adjustLedgerRange, and      *)
(* Config.GenerateCaptiveCoreConfig.                                        *)
(*                                                                         *)
(* Every ledger sequence is a Go uint32, whose arithmetic wraps.  TLC's     *)
(* integers stop at 2^31 - 1, so the unsigned word is modelled WordBits    *)
(* wide: arithmetic is taken modulo 2^WordBits, and MaxUint stands for the *)
(* largest uint32.                                                         *)
(* Functions imported from other modules (ordered.Max, the datastore       *)
(* schema's GetSequenceNumberStartBoundary / GetSequenceNumberEndBoundary, *)
(* os.ReadFile, toml.LoadFile, the version probe) are modelled by what     *)
(* they return to the calling code; the comments at each say so.           *)
(***************************************************************************)
EXTENDS Integers, Sequences, FiniteSets, TLC

VARIABLES
    config,     \* the *Config the methods mutate
    dsc,        \* the receiver of DataStoreConfig.Validate
    archive,    \* historyarchive.ArchiveInterface: the network-state provider
    doc,        \* the TOML document and the files processToml reads
    probe,      \* CoreBuildVersionFn and NewCaptiveCoreTomlFromData outcomes
    pc,         \* position of the caller: before / after the call
    err,        \* the error the last call returned ("nil" = success)
    ret,        \* the CaptiveCoreConfig GenerateCaptiveCoreConfig returned
    queries,    \* number of GetLatestLedgerSequence calls made so far
    probed,     \* sequence of binary paths handed to the version probe
    calls,      \* number of calls made so far
    old         \* receiver and argument of the last call, as they were before it

vars == <<config, dsc, archive, doc, probe, pc, err, ret, queries, probed, calls, old>>

----------------------------------------------------------------------------
(* Bounds of the model *)

\* small ledger sequences 0..MaxLedger are enumerated exhaustively
MaxLedger == 12
\* ledgers-per-file values 1..MaxPerFile are enumerated exhaustively
MaxPerFile == 3
\* number of times adjustLedgerRange / GenerateCaptiveCoreConfig is re-applied
MaxCalls == 2
\* schema fields 0..MaxSchema are enumerated for DataStoreConfig.Validate
MaxSchema == 2
\* width of the unsigned word that stands for uint32
WordBits == 16

----------------------------------------------------------------------------
(* Go types and constants *)

\* uint32 (config.go:47-48, 71-72, 132-133): unsigned, wrapping
UintModulus == 2 ^ WordBits
MaxUint == UintModulus - 1
U32(n) == n % UintModulus

\* const ( _ Mode = iota; ScanFill; Append )
ScanFill == 1
AppendMode == 2
Modes == {0, ScanFill, AppendMode}

Pubnet == "pubnet"
Testnet == "testnet"
UserAgent == "galexie"

\* ordered.Max
Max(a, b) == IF a > b THEN a ELSE b

----------------------------------------------------------------------------
(* Ledger range: ValidateAndSetLedgerRange and adjustLedgerRange *)

\* datastore.DataStoreSchema.GetSequenceNumberStartBoundary, called at
\* config.go:343: the first ledger of the file that holds ledgerSeq.
GetSequenceNumberStartBoundary(P, ledgerSeq) ==
    IF P = 0 THEN 0 ELSE U32((ledgerSeq \div P) * P)

\* datastore.DataStoreSchema.GetSequenceNumberEndBoundary, called at
\* config.go:350: the last ledger of the file that holds ledgerSeq
\* (start boundary + LedgersPerFile - 1, in uint32).
GetSequenceNumberEndBoundary(P, ledgerSeq) ==
    U32(GetSequenceNumberStartBoundary(P, ledgerSeq) + P + UintModulus - 1)

\* mutant: the floor of 2 applied before the rounding instead of after it
adjustLedgerRange_ClampFirst(c) ==
    LET s == GetSequenceNumberStartBoundary(c.LedgersPerFile, Max(2, c.StartLedger))
        e == IF c.EndLedger # 0
             THEN GetSequenceNumberEndBoundary(c.LedgersPerFile, c.EndLedger)
             ELSE c.EndLedger
    IN  [c EXCEPT !.StartLedger = s, !.EndLedger = e]

\* mutant: the end ledger aligned without the "!= 0" guard
adjustLedgerRange_AlignUnbounded(c) ==
    LET s == Max(2, GetSequenceNumberStartBoundary(c.LedgersPerFile, c.StartLedger))
        e == GetSequenceNumberEndBoundary(c.LedgersPerFile, c.EndLedger)
    IN  [c EXCEPT !.StartLedger = s, !.EndLedger = e]

adjustLedgerRange(c) ==
    LET s1 == GetSequenceNumberStartBoundary(c.LedgersPerFile, c.StartLedger)
        s2 == Max(2, s1)
        e  == IF c.EndLedger # 0
              THEN GetSequenceNumberEndBoundary(c.LedgersPerFile, c.EndLedger)
              ELSE c.EndLedger
    IN  [c EXCEPT !.StartLedger = s2, !.EndLedger = e]

\* latestNetworkLedger after config.go:192: latest + 2 * frequency, in uint32.
\* GetLatestLedgerSequence returns 0 together with an error.
latestNetworkLedger(a) ==
    U32((IF a.err THEN 0 ELSE a.latest) + U32(a.freq * 2))

\* The three checks made before the archive is asked (config.go:179-189).
LocalRangeError(c) ==
    IF c.StartLedger < 2 THEN "StartTooLow"
    ELSE IF c.Mode = ScanFill /\ c.EndLedger = 0 THEN "UnboundedNotAllowed"
    ELSE IF c.EndLedger # 0 /\ c.EndLedger <= c.StartLedger THEN "EndNotAfterStart"
    ELSE "nil"

\* mutant: the unbounded-end check made before the start check
RangeError_UnboundedFirst(c, a) ==
    IF c.Mode = ScanFill /\ c.EndLedger = 0 THEN "UnboundedNotAllowed"
    ELSE IF c.StartLedger < 2 THEN "StartTooLow"
    ELSE IF c.EndLedger # 0 /\ c.EndLedger <= c.StartLedger THEN "EndNotAfterStart"
    ELSE IF a.err THEN "NetworkStateUnavailable"
    ELSE IF c.StartLedger > latestNetworkLedger(a) THEN "StartBeyondNetwork"
    ELSE IF c.EndLedger > latestNetworkLedger(a) THEN "EndBeyondNetwork"
    ELSE "nil"

\* The error ValidateAndSetLedgerRange returns (config.go:179-207).
RangeError(c, a) ==
    IF LocalRangeError(c) # "nil" THEN LocalRangeError(c)
    ELSE IF a.err THEN "NetworkStateUnavailable"
    ELSE IF c.StartLedger > latestNetworkLedger(a) THEN "StartBeyondNetwork"
    ELSE IF c.EndLedger > latestNetworkLedger(a) THEN "EndBeyondNetwork"
    ELSE "nil"

\* mutant: the range aligned before it is validated
RangeAfterCall_AlignFirst(c, a) == adjustLedgerRange(c)

\* The receiver after ValidateAndSetLedgerRange: adjusted only on success.
RangeAfterCall(c, a) ==
    IF RangeError(c, a) = "nil" THEN adjustLedgerRange(c) ELSE c

\* GetLatestLedgerSequence is reached only past the three local checks.
ArchiveQueries(c) == IF LocalRangeError(c) = "nil" THEN 1 ELSE 0

----------------------------------------------------------------------------
(* Storage configuration: DataStoreConfig.Validate *)

\* mutant: the schema checked before the kind-specific parameter
Validate_SchemaFirst(c) ==
    IF c.Type = "" THEN "MissingKind"
    ELSE IF c.Type \notin {"GCS", "S3", "FS"} THEN "UnsupportedKind"
    ELSE IF c.LedgersPerFile = 0 \/ c.FilesPerPartition = 0 THEN "InvalidSchema"
    ELSE IF c.Type = "GCS" /\ "destination_bucket_path" \notin DOMAIN c.Params
        THEN "MissingParameter"
    ELSE IF c.Type = "S3" /\ "bucket_name" \notin DOMAIN c.Params
        THEN "MissingParameter"
    ELSE IF c.Type = "FS" /\ "base_path" \notin DOMAIN c.Params
        THEN "MissingParameter"
    ELSE "nil"

\* The error DataStoreConfig.Validate returns (config.go:76-107).
Validate(c) ==
    IF c.Type = "" THEN "MissingKind"
    ELSE IF c.Type = "GCS" /\ "destination_bucket_path" \notin DOMAIN c.Params
        THEN "MissingParameter"
    ELSE IF c.Type = "S3" /\ "bucket_name" \notin DOMAIN c.Params
        THEN "MissingParameter"
    ELSE IF c.Type = "FS" /\ "base_path" \notin DOMAIN c.Params
        THEN "MissingParameter"
    ELSE IF c.Type \notin {"GCS", "S3", "FS"} THEN "UnsupportedKind"
    ELSE IF c.LedgersPerFile = 0 THEN "InvalidSchema"
    ELSE IF c.FilesPerPartition = 0 THEN "InvalidSchema"
    ELSE "nil"

----------------------------------------------------------------------------
(* Network presets: processToml *)

\* network.PublicNetworkPassphrase / network.TestNetworkPassphrase
PublicNetworkPassphrase == "Public Global Stellar Network ; September 2015"
TestNetworkPassphrase == "Test SDF Network ; September 2015"
\* network.PublicNetworkhistoryArchiveURLs / network.TestNetworkhistoryArchiveURLs
PublicNetworkhistoryArchiveURLs == <<"https://history.stellar.org/prd/core-live/core_live_001">>
TestNetworkhistoryArchiveURLs == <<"https://history.stellar.org/prd/core-testnet/core_testnet_001">>
\* ledgerbackend.PubnetDefaultConfig / ledgerbackend.TestnetDefaultConfig (bytes)
PubnetDefaultConfig == "pubnet-default.cfg"
TestnetDefaultConfig == "testnet-default.cfg"

\* cfg.Unmarshal(config): every toml-tagged field present in the document
\* is written to the receiver (config.go:286).
Unmarshal(c, d) ==
    [c EXCEPT !.Network = d.Network,
              !.NetworkPassphrase = d.NetworkPassphrase,
              !.HistoryArchiveUrls = d.HistoryArchiveUrls,
              !.StellarCoreBinaryPath = d.StellarCoreBinaryPath,
              !.CaptiveCoreTomlPath = d.CaptiveCoreTomlPath,
              !.CheckpointFrequency = d.CheckpointFrequency,
              !.StoragePath = d.StoragePath,
              !.LedgersPerFile = d.LedgersPerFile,
              !.UserAgent = d.UserAgent]

\* config.go:290-292
DefaultUserAgent(c) ==
    IF c.UserAgent = "" THEN [c EXCEPT !.UserAgent = UserAgent] ELSE c

\* config.go:294: no network name and one of the three settings missing
MissingNetworkSettings(c) ==
    /\ c.Network = ""
    /\ \/ Len(c.HistoryArchiveUrls) = 0
       \/ c.NetworkPassphrase = ""
       \/ c.CaptiveCoreTomlPath = ""

\* config.go:303-320: the values the network name preconfigures
PresetKnown(n) == n \in {"", Pubnet, Testnet}
PresetPassPhrase(n) ==
    IF n = Pubnet THEN PublicNetworkPassphrase
    ELSE IF n = Testnet THEN TestNetworkPassphrase ELSE ""
PresetArchiveUrls(n) ==
    IF n = Pubnet THEN PublicNetworkhistoryArchiveURLs
    ELSE IF n = Testnet THEN TestNetworkhistoryArchiveURLs ELSE << >>
ApplyPresetToml(c) ==
    IF c.Network = Pubnet THEN [c EXCEPT !.SerializedCaptiveCoreToml = PubnetDefaultConfig]
    ELSE IF c.Network = Testnet THEN [c EXCEPT !.SerializedCaptiveCoreToml = TestnetDefaultConfig]
    ELSE c

\* mutant: the preset's values written over the document's own
Overlay_PresetWins(c) ==
    [c EXCEPT !.NetworkPassphrase =
                  IF PresetPassPhrase(c.Network) # "" THEN PresetPassPhrase(c.Network) ELSE @,
              !.HistoryArchiveUrls =
                  IF Len(PresetArchiveUrls(c.Network)) > 0 THEN PresetArchiveUrls(c.Network) ELSE @]

\* config.go:322-328: the document's passphrase and URLs win over the preset's
Overlay(c) ==
    [c EXCEPT !.NetworkPassphrase =
                  IF @ = "" THEN PresetPassPhrase(c.Network) ELSE @,
              !.HistoryArchiveUrls =
                  IF Len(@) < 1 THEN PresetArchiveUrls(c.Network) ELSE @]

\* config.go:330-334: os.ReadFile of the engine-config path; nil bytes and
\* an error when the file cannot be read
ReadCaptiveCoreToml(c, d) ==
    IF c.CaptiveCoreTomlPath = "" THEN [config |-> c, err |-> "nil"]
    ELSE IF d.readErr
        THEN [config |-> [c EXCEPT !.SerializedCaptiveCoreToml = ""],
              err |-> "ConfigFileUnreadable"]
    ELSE [config |-> [c EXCEPT !.SerializedCaptiveCoreToml = d.fileBytes],
          err |-> "nil"]

\* Config.processToml (config.go:278-337): receiver and error after the call
processToml(c, d) ==
    IF d.loadErr THEN [config |-> c, err |-> "NotFound"]
    ELSE IF d.unmarshalErr THEN [config |-> c, err |-> "ParseFailure"]
    ELSE LET c1 == DefaultUserAgent(Unmarshal(c, d)) IN
         IF MissingNetworkSettings(c1)
             THEN [config |-> c1, err |-> "IncompleteNetworkConfig"]
         ELSE IF ~PresetKnown(c1.Network)
             THEN [config |-> c1, err |-> "IncompleteNetworkConfig"]
         ELSE ReadCaptiveCoreToml(Overlay(ApplyPresetToml(c1)), d)

----------------------------------------------------------------------------
(* Streaming engine: GenerateCaptiveCoreConfig *)

\* historyarchive.DefaultCheckpointFrequency
DefaultCheckpointFrequency == 64

\* ledgerbackend.CaptiveCoreConfig{}
EmptyCaptiveCoreConfig ==
    [BinaryPath |-> "", NetworkPassphrase |-> "", HistoryArchiveURLs |-> << >>,
     CheckpointFrequency |-> 0, Toml |-> "", UserAgent |-> "", UseDB |-> FALSE,
     StoragePath |-> ""]

\* mutant: the override preferred over the configured binary path
EffectiveBinaryPath_OverrideWins(c, coreBinFromPath) ==
    IF coreBinFromPath # "" THEN coreBinFromPath ELSE c.StellarCoreBinaryPath

\* config.go:233-235
EffectiveBinaryPath(c, coreBinFromPath) ==
    IF c.StellarCoreBinaryPath = "" THEN coreBinFromPath ELSE c.StellarCoreBinaryPath

\* Config.GenerateCaptiveCoreConfig with setCoreVersionInfo (config.go:226-276):
\* receiver, error, returned config and the paths probed by the call
GenerateCaptiveCoreConfig(c, coreBinFromPath, p) ==
    IF c.StellarCoreBinaryPath = "" /\ coreBinFromPath = ""
        THEN [config |-> c, err |-> "NoBinaryPath",
              ret |-> EmptyCaptiveCoreConfig, probed |-> << >>]
    ELSE LET c1 == [c EXCEPT !.StellarCoreBinaryPath = EffectiveBinaryPath(c, coreBinFromPath)]
             v  == p.version[c1.StellarCoreBinaryPath]
             c2 == [c1 EXCEPT !.CoreVersion = v.version]
         IN  IF v.err
                 THEN [config |-> c2, err |-> "VersionProbeFailed",
                       ret |-> EmptyCaptiveCoreConfig,
                       probed |-> <<c1.StellarCoreBinaryPath>>]
             ELSE IF p.tomlErr
                 THEN [config |-> c2, err |-> "TomlCreateFailed",
                       ret |-> EmptyCaptiveCoreConfig,
                       probed |-> <<c1.StellarCoreBinaryPath>>]
             ELSE [config |-> c2, err |-> "nil",
                   ret |-> [BinaryPath |-> c2.StellarCoreBinaryPath,
                            NetworkPassphrase |-> c2.NetworkPassphrase,
                            HistoryArchiveURLs |-> c2.HistoryArchiveUrls,
                            CheckpointFrequency |->
                                IF c2.CheckpointFrequency > 0
                                THEN c2.CheckpointFrequency
                                ELSE DefaultCheckpointFrequency,
                            Toml |-> c2.SerializedCaptiveCoreToml,
                            UserAgent |-> c2.UserAgent,
                            UseDB |-> TRUE,
                            StoragePath |-> c2.StoragePath],
                   probed |-> <<c1.StellarCoreBinaryPath>>]

----------------------------------------------------------------------------
(* Values the calls are made with *)

\* Config{} : every field at its zero value (config.go:125-139, 147)
ZeroConfig ==
    [StartLedger |-> 0, EndLedger |-> 0, Mode |-> 0, LedgersPerFile |-> 0,
     Network |-> "", NetworkPassphrase |-> "", HistoryArchiveUrls |-> << >>,
     StellarCoreBinaryPath |-> "", CaptiveCoreTomlPath |-> "",
     CheckpointFrequency |-> 0, StoragePath |-> "", UserAgent |-> "",
     CoreVersion |-> "", SerializedCaptiveCoreToml |-> ""]

\* a readable, well-formed document with no field set
EmptyDoc ==
    [loadErr |-> FALSE, unmarshalErr |-> FALSE, readErr |-> FALSE,
     fileBytes |-> "custom-core.cfg bytes",
     Network |-> "", NetworkPassphrase |-> "", HistoryArchiveUrls |-> << >>,
     StellarCoreBinaryPath |-> "", CaptiveCoreTomlPath |-> "",
     CheckpointFrequency |-> 0, StoragePath |-> "", LedgersPerFile |-> 0,
     UserAgent |-> ""]

\* the documents processToml is run on
Docs ==
    { [EmptyDoc EXCEPT !.loadErr = le, !.unmarshalErr = ue, !.readErr = re,
                       !.Network = n, !.NetworkPassphrase = pp,
                       !.HistoryArchiveUrls = urls, !.CaptiveCoreTomlPath = path,
                       !.UserAgent = ua] :
        le \in BOOLEAN, ue \in BOOLEAN, re \in BOOLEAN,
        n \in {"", Pubnet, Testnet, "futurenet"},
        pp \in {"", "Standalone Network ; February 2017"},
        urls \in {<< >>, <<"http://localhost:1570">>},
        path \in {"", "custom-core.cfg"},
        ua \in {"", "my-exporter"} }

\* the config NewConfig returns for a document that names testnet only
TestnetConfig == processToml(ZeroConfig, [EmptyDoc EXCEPT !.Network = Testnet]).config

\* ledger sequences: the small ones, the ones the documentation uses as
\* examples, and the top of the unsigned range
Ledgers ==
    (0 .. MaxLedger) \cup {23, 57, 59, 60, 1128, 1129} \cup {MaxUint - 1, MaxUint}

\* ledgers-per-file values of a valid schema
PerFiles == (1 .. MaxPerFile) \cup {10, 64}

\* answers of the history archive: an error, or a latest ledger with the
\* checkpoint frequency of its checkpoint manager
Archives ==
    { [err |-> TRUE, latest |-> 0, freq |-> f] : f \in {1, 64} } \cup
    { [err |-> FALSE, latest |-> l, freq |-> f] :
        l \in {0, 5, 500, 1000, MaxUint - 2, MaxUint}, f \in {1, 64} }

ParamKeys == {"destination_bucket_path", "bucket_name", "base_path"}

\* the storage configurations Validate is run on
DataStoreConfigs ==
    { [Type |-> t, Params |-> p, LedgersPerFile |-> l, FilesPerPartition |-> f] :
        t \in {"", "GCS", "S3", "FS", "Azure"},
        p \in UNION { [K -> {"", "bucket"}] : K \in SUBSET ParamKeys },
        l \in 0 .. MaxSchema, f \in 0 .. MaxSchema }

BinaryPaths == {"/opt/stellar-core", "/usr/bin/stellar-core"}

\* what CoreBuildVersionFn answers for a path
ProbeOutcomes ==
    { [err |-> TRUE, version |-> ""],
      [err |-> FALSE, version |-> "v21.0.0"],
      [err |-> FALSE, version |-> "v22.0.0"] }

Probes == [version : [BinaryPaths -> ProbeOutcomes], tomlErr : BOOLEAN]

\* values of the variables a specification does not use
IdleDsc == [Type |-> "", Params |-> [k \in {} |-> ""], LedgersPerFile |-> 0,
            FilesPerPartition |-> 0]
IdleArchive == [err |-> FALSE, latest |-> 0, freq |-> 0]
IdleProbe == [version |-> [b \in BinaryPaths |-> [err |-> TRUE, version |-> ""]],
              tomlErr |-> FALSE]

InitCommon ==
    /\ pc = "start"
    /\ err = "none"
    /\ ret = EmptyCaptiveCoreConfig
    /\ queries = 0
    /\ probed = << >>
    /\ calls = 0

----------------------------------------------------------------------------
(* Specification of the ledger range resolver *)

InitRange ==
    /\ InitCommon
    /\ \E s \in Ledgers, e \in Ledgers, m \in Modes, P \in PerFiles :
         config = [TestnetConfig EXCEPT !.StartLedger = s, !.EndLedger = e,
                                        !.Mode = m, !.LedgersPerFile = P]
    /\ archive \in Archives
    /\ dsc = IdleDsc
    /\ doc = EmptyDoc
    /\ probe = IdleProbe
    /\ old = [recv |-> config, arg |-> archive, probed |-> << >>]

ValidateAndSetLedgerRange ==
    /\ pc = "start"
    /\ pc' = "done"
    /\ old' = [recv |-> config, arg |-> archive, probed |-> probed]
    /\ err' = RangeError(config, archive)
    /\ config' = RangeAfterCall(config, archive)
    /\ queries' = queries + ArchiveQueries(config)
    /\ calls' = calls + 1
    /\ UNCHANGED <<dsc, archive, doc, probe, ret, probed>>

NextRange == ValidateAndSetLedgerRange

SpecRange == InitRange /\ [][NextRange]_vars

----------------------------------------------------------------------------
(* Specification of range alignment alone *)

InitAlign ==
    /\ InitCommon
    /\ \E s \in Ledgers, e \in Ledgers, P \in PerFiles :
         config = [TestnetConfig EXCEPT !.StartLedger = s, !.EndLedger = e,
                                        !.Mode = AppendMode, !.LedgersPerFile = P]
    /\ archive = IdleArchive
    /\ dsc = IdleDsc
    /\ doc = EmptyDoc
    /\ probe = IdleProbe
    /\ old = [recv |-> config, arg |-> "none", probed |-> << >>]

AdjustLedgerRange ==
    /\ calls < MaxCalls
    /\ pc' = "done"
    /\ old' = [recv |-> config, arg |-> "none", probed |-> probed]
    /\ config' = adjustLedgerRange(config)
    /\ calls' = calls + 1
    /\ UNCHANGED <<dsc, archive, doc, probe, err, ret, queries, probed>>

NextAlign == AdjustLedgerRange

SpecAlign == InitAlign /\ [][NextAlign]_vars

----------------------------------------------------------------------------
(* Specification of the storage schema validator *)

InitStore ==
    /\ InitCommon
    /\ config = ZeroConfig
    /\ archive = IdleArchive
    /\ dsc \in DataStoreConfigs
    /\ doc = EmptyDoc
    /\ probe = IdleProbe
    /\ old = [recv |-> dsc, arg |-> "none", probed |-> << >>]

ValidateDataStoreConfig ==
    /\ pc = "start"
    /\ pc' = "done"
    /\ old' = [recv |-> dsc, arg |-> "none", probed |-> probed]
    /\ err' = Validate(dsc)
    /\ calls' = calls + 1
    /\ UNCHANGED <<config, dsc, archive, doc, probe, ret, queries, probed>>

NextStore == ValidateDataStoreConfig

SpecStore == InitStore /\ [][NextStore]_vars

----------------------------------------------------------------------------
(* Specification of the network preset resolver *)

InitToml ==
    /\ InitCommon
    /\ \E s \in {2, 5}, m \in {ScanFill, AppendMode} :
         config = [ZeroConfig EXCEPT !.StartLedger = s, !.Mode = m]
    /\ archive = IdleArchive
    /\ dsc = IdleDsc
    /\ doc \in Docs
    /\ probe = IdleProbe
    /\ old = [recv |-> config, arg |-> doc, probed |-> << >>]

ProcessToml ==
    /\ pc = "start"
    /\ pc' = "done"
    /\ old' = [recv |-> config, arg |-> doc, probed |-> probed]
    /\ config' = processToml(config, doc).config
    /\ err' = processToml(config, doc).err
    /\ calls' = calls + 1
    /\ UNCHANGED <<dsc, archive, doc, probe, ret, queries, probed>>

NextToml == ProcessToml

SpecToml == InitToml /\ [][NextToml]_vars

----------------------------------------------------------------------------
(* Specification of the streaming-engine config builder *)

InitCore ==
    /\ InitCommon
    /\ \E b \in {"", "/opt/stellar-core"}, f \in {0, 32} :
         config = [TestnetConfig EXCEPT !.StellarCoreBinaryPath = b,
                                        !.CheckpointFrequency = f]
    /\ archive = IdleArchive
    /\ dsc = IdleDsc
    /\ doc = EmptyDoc
    /\ probe \in Probes
    /\ old = [recv |-> config, arg |-> "", probed |-> << >>]

GenerateCaptiveCoreConfigCall(coreBinFromPath) ==
    /\ calls < MaxCalls
    /\ pc' = "done"
    /\ old' = [recv |-> config, arg |-> coreBinFromPath, probed |-> probed]
    /\ LET r == GenerateCaptiveCoreConfig(config, coreBinFromPath, probe) IN
         /\ config' = r.config
         /\ err' = r.err
         /\ ret' = r.ret
         /\ probed' = probed \o r.probed
    /\ calls' = calls + 1
    /\ UNCHANGED <<dsc, archive, doc, probe, queries>>

NextCore == \E coreBinFromPath \in {"", "/usr/bin/stellar-core"} :
                GenerateCaptiveCoreConfigCall(coreBinFromPath)

SpecCore == InitCore /\ [][NextCore]_vars

----------------------------------------------------------------------------
(* Properties *)

\* C1: ValidateAndSetLedgerRange returns the error of the first failing
\* check in the order StartTooLow, UnboundedNotAllowed, EndNotAfterStart,
\* NetworkStateUnavailable, StartBeyondNetwork, EndBeyondNetwork (the ceiling
\* being the one the call computed); a start below 2 always gives
\* StartTooLow; the archive is asked exactly when the first three pass.
C1_FirstFailingCheckWins ==
    pc = "done" =>
        LET c == old.recv
            a == old.arg
            ceiling == latestNetworkLedger(a)
            checks == << <<c.StartLedger < 2, "StartTooLow">>,
                         <<c.Mode = ScanFill /\ c.EndLedger = 0, "UnboundedNotAllowed">>,
                         <<c.EndLedger # 0 /\ c.EndLedger <= c.StartLedger, "EndNotAfterStart">>,
                         <<a.err, "NetworkStateUnavailable">>,
                         <<c.StartLedger > ceiling, "StartBeyondNetwork">>,
                         <<c.EndLedger # 0 /\ c.EndLedger > ceiling, "EndBeyondNetwork">> >>
            failing == {i \in 1 .. 6 : checks[i][1]}
            first == CHOOSE i \in failing : \A j \in failing : i <= j
        IN  /\ err = IF failing = {} THEN "nil" ELSE checks[first][2]
            /\ (c.StartLedger < 2 => err = "StartTooLow")
            /\ queries = IF failing \cap {1, 2, 3} = {} THEN 1 ELSE 0

\* C1 witness: a request failing the first, second and fourth check at once
\* is answered StartTooLow without the archive being asked.
C1_Witness ==
    /\ pc = "done"
    /\ old.recv.StartLedger = 1
    /\ old.recv.Mode = ScanFill
    /\ old.recv.EndLedger = 0
    /\ old.arg.err
    /\ err = "StartTooLow"
    /\ queries = 0

\* C2 (as claimed): past the first three checks and with the archive
\* answering latest ledger L and checkpoint frequency F, the call fails with
\* StartBeyondNetwork when start > L + 2*F, with EndBeyondNetwork when
\* end # 0 and end > L + 2*F, and succeeds otherwise.
C2_CeilingIsLatestPlusTwoFrequencies ==
    LET c == old.recv
        a == old.arg
    IN  ( /\ pc = "done"
          /\ c.StartLedger >= 2
          /\ ~(c.Mode = ScanFill /\ c.EndLedger = 0)
          /\ ~(c.EndLedger # 0 /\ c.EndLedger <= c.StartLedger)
          /\ ~a.err )
        => err = IF c.StartLedger > a.latest + 2 * a.freq THEN "StartBeyondNetwork"
                 ELSE IF c.EndLedger # 0 /\ c.EndLedger > a.latest + 2 * a.freq
                     THEN "EndBeyondNetwork"
                 ELSE "nil"

\* C3: on success with P ledgers per file, P > 0, the final start ledger is
\* max(2, floor(requestedStart / P) * P), the floor of 2 applied after the
\* rounding, and lies between 2 and the requested start.
C3_FinalStart ==
    (pc = "done" /\ err = "nil" /\ old.recv.LedgersPerFile > 0) =>
        LET s == old.recv.StartLedger
            P == old.recv.LedgersPerFile
            rounded == (s \div P) * P
        IN  /\ config.StartLedger = IF rounded < 2 THEN 2 ELSE rounded
            /\ 2 <= config.StartLedger
            /\ config.StartLedger <= s
            /\ (P = 10 /\ s = 23 => config.StartLedger = 20)
            /\ (P = 64 /\ s = 5 => config.StartLedger = 2)

\* C3 witness: start 5 with 64 ledgers per file rounds down to 0 and is then
\* raised to 2.
C3_Witness ==
    /\ pc = "done"
    /\ err = "nil"
    /\ old.recv.LedgersPerFile = 64
    /\ old.recv.StartLedger = 5
    /\ config.StartLedger = 2

C10_ErrorLeavesRangeUnchanged ==
    pc = "done" =>
        /\ config.Mode = old.recv.Mode
        /\ (err # "nil" =>
               /\ config.StartLedger = old.recv.StartLedger
               /\ config.EndLedger = old.recv.EndLedger)
        /\ (config.StartLedger # old.recv.StartLedger => err = "nil")
        /\ (config.EndLedger # old.recv.EndLedger => err = "nil")

\* C10 witness: an unaligned range refused for its end keeps start 23 and
\* end 1129 with 10 ledgers per file.
C10_Witness ==
    /\ pc = "done"
    /\ err = "EndBeyondNetwork"
    /\ old.recv.LedgersPerFile = 10
    /\ old.recv.StartLedger = 23
    /\ config.StartLedger = 23
    /\ config.EndLedger = 1129

\* C6: when processToml succeeds, the passphrase and the archive URLs are
\* the document's own when it gives them and the named preset's otherwise,
\* and the engine-configuration payload is the bytes of the file at the
\* document's path when it gives one and the preset's default otherwise.
C6_PresetOverlay ==
    (pc = "done" /\ err = "nil") =>
        LET d == old.arg IN
        /\ config.NetworkPassphrase =
               IF d.NetworkPassphrase # "" THEN d.NetworkPassphrase
               ELSE IF d.Network = Pubnet THEN PublicNetworkPassphrase
               ELSE TestNetworkPassphrase
        /\ config.HistoryArchiveUrls =
               IF d.HistoryArchiveUrls # << >> THEN d.HistoryArchiveUrls
               ELSE IF d.Network = Pubnet THEN PublicNetworkhistoryArchiveURLs
               ELSE TestNetworkhistoryArchiveURLs
        /\ config.SerializedCaptiveCoreToml =
               IF d.CaptiveCoreTomlPath # "" THEN d.fileBytes
               ELSE IF d.Network = Pubnet THEN PubnetDefaultConfig
               ELSE TestnetDefaultConfig

\* C6 witness: pubnet with an explicit passphrase and nothing else resolves
\* to the explicit passphrase, the preset's URLs and the preset's payload.
C6_Witness ==
    /\ pc = "done"
    /\ err = "nil"
    /\ old.arg.Network = Pubnet
    /\ old.arg.NetworkPassphrase = "Standalone Network ; February 2017"
    /\ old.arg.HistoryArchiveUrls = << >>
    /\ old.arg.CaptiveCoreTomlPath = ""
    /\ config.NetworkPassphrase = "Standalone Network ; February 2017"
    /\ config.HistoryArchiveUrls = PublicNetworkhistoryArchiveURLs
    /\ config.SerializedCaptiveCoreToml = PubnetDefaultConfig

\* C7 (as claimed): for a readable, well-formed document, processToml fails
\* with IncompleteNetworkConfig exactly when neither a named preset is given
\* nor all three of passphrase, archive URLs and engine-config path are
\* present, whatever the network name field holds.
C7_LegalityRule ==
    LET d == old.arg
        preset == d.Network \in {Pubnet, Testnet}
        allThree == /\ d.NetworkPassphrase # ""
                    /\ d.HistoryArchiveUrls # << >>
                    /\ d.CaptiveCoreTomlPath # ""
    IN  (pc = "done" /\ ~d.loadErr /\ ~d.unmarshalErr) =>
            ((err = "IncompleteNetworkConfig") <=> ~(preset \/ allThree))

\* C8: Validate returns nil exactly for a kind among GCS, S3, FS with its
\* required parameter present and both schema fields positive; otherwise the
\* first of MissingKind, UnsupportedKind or MissingParameter, InvalidSchema
\* that applies; the configuration is left as it was.
C8_ValidateVerdict ==
    pc = "done" =>
        LET c == old.recv
            required == IF c.Type = "GCS" THEN "destination_bucket_path"
                        ELSE IF c.Type = "S3" THEN "bucket_name"
                        ELSE "base_path"
            valid == /\ c.Type \in {"GCS", "S3", "FS"}
                     /\ required \in DOMAIN c.Params
                     /\ c.LedgersPerFile > 0
                     /\ c.FilesPerPartition > 0
        IN  /\ (err = "nil") <=> valid
            /\ err = IF c.Type = "" THEN "MissingKind"
                     ELSE IF c.Type \notin {"GCS", "S3", "FS"} THEN "UnsupportedKind"
                     ELSE IF required \notin DOMAIN c.Params THEN "MissingParameter"
                     ELSE IF c.LedgersPerFile = 0 \/ c.FilesPerPartition = 0
                         THEN "InvalidSchema"
                     ELSE "nil"
            /\ dsc = c

\* C8 witness: GCS without destination_bucket_path and with a zero schema is
\* refused for the missing parameter.
C8_Witness ==
    /\ pc = "done"
    /\ old.recv.Type = "GCS"
    /\ "destination_bucket_path" \notin DOMAIN old.recv.Params
    /\ old.recv.LedgersPerFile = 0
    /\ err = "MissingParameter"

\* C9: GenerateCaptiveCoreConfig fails with NoBinaryPath exactly when the
\* configured binary path and the override are both empty, and then probes
\* nothing; otherwise it probes once, the configured path when there is one
\* and the override when there is none; a probe error gives
\* VersionProbeFailed; on success the probed version is recorded and the
\* returned config carries the probed path.
C9_BinaryPathAndProbe ==
    calls >= 1 =>
        LET c == old.recv
            override == old.arg
            effective == IF c.StellarCoreBinaryPath # ""
                         THEN c.StellarCoreBinaryPath ELSE override
        IN  /\ (err = "NoBinaryPath") <=> (c.StellarCoreBinaryPath = "" /\ override = "")
            /\ (err = "NoBinaryPath" => probed = old.probed)
            /\ (err # "NoBinaryPath" =>
                   /\ probed = Append(old.probed, effective)
                   /\ (err = "VersionProbeFailed") <=> probe.version[effective].err)
            /\ (err = "nil" =>
                   /\ config.CoreVersion = probe.version[effective].version
                   /\ ret.BinaryPath = effective)

\* C9 witness: with both paths set and different, the call succeeds on the
\* configured path after probing it once.
C9_Witness ==
    /\ calls = 1
    /\ err = "nil"
    /\ old.recv.StellarCoreBinaryPath = "/opt/stellar-core"
    /\ old.arg = "/usr/bin/stellar-core"
    /\ probed = <<"/opt/stellar-core">>
    /\ ret.BinaryPath = "/opt/stellar-core"
    /\ config.CoreVersion = probe.version["/opt/stellar-core"].version

====
